---- MODULE Spec2Model ----
(***************************************************************************)
(* cargo-flatpak: turning a Cargo.lock into a list of flatpak sources.     *)
(*                                                                         *)
(* The repository holds two generations of the resolver: src/main.rs (the  *)
(* binary, with canonical_url and the driver loop of main) and             *)
(* src/sources.rs (the library form, with parse_url).  The variable        *)
(* `variant` says which one a behaviour runs.                              *)
(*                                                                         *)
(* Strings are sequences of tokens (a token is a TLA+ string that the code *)
(* never splits): "cargo/vendor/serde-1.0.0" is                            *)
(* <<"cargo/vendor", "/", "serde", "-", "1.0.0">>.  format!() is \o.       *)
(* Option<T> is a sequence of length 0 (None) or 1 (Some).                 *)
(* A map is a set of <<key, value>> pairs with unique keys.                *)
(***************************************************************************)
EXTENDS Integers, Sequences, FiniteSets, TLC

VARIABLES
    variant,                 \* "main" (src/main.rs) or "sources" (src/sources.rs)
    \* the canonicalizer applied to one raw URL, then again
    upc, url_raw, url_alt, canon1, canon2,
    \* the driver loop of main
    lock, idx, package_sources, cargo_vendored_sources, status, error, output, effects,
    \* the workspace manifest walker over one checkout
    fs, packages, stack, wpc, members

urlVars == <<upc, url_raw, url_alt, canon1, canon2>>
driverVars == <<lock, idx, package_sources, cargo_vendored_sources, status, error, output, effects>>
walkVars == <<packages, stack, wpc, members>>
vars == <<variant, urlVars, driverVars, fs, walkVars>>

----------------------------------------------------------------------------
(* Bounds of the model *)

\* tokens of a raw URL's path after the leading "/"
MaxPathLen == 3

----------------------------------------------------------------------------
(* Generic helpers *)

None == <<>>
Some(x) == <<x>>

Last(s) == s[Len(s)]
Front(s) == SubSeq(s, 1, Len(s) - 1)

\* HashMap / toml Map insert: a later insert of the same key overwrites
MapInsert(m, k, v) == {p \in m : p[1] # k} \cup {<<k, v>>}
MapKeys(m) == {p[1] : p \in m}
MapGet(m, k) == IF k \in MapKeys(m) THEN Some((CHOOSE p \in m : p[1] = k)[2]) ELSE None

SeqsUpTo(S, n) == UNION {[1..k -> S] : k \in 0..n}

\* index of the first occurrence of tok in s, Len(s)+1 when there is none
FirstIdx(s, tok) ==
    IF \E i \in 1..Len(s) : s[i] = tok
    THEN CHOOSE i \in 1..Len(s) : s[i] = tok /\ \A j \in 1..(i - 1) : s[j] # tok
    ELSE Len(s) + 1

----------------------------------------------------------------------------
(* Program constants *)

CRATES_IO == <<"https://static.crates.io/crates">>
CARGO_HOME == <<"cargo">>
CARGO_CRATES == <<"cargo/vendor">>
VENDORED_SOURCES == <<"vendored-sources">>
GIT_CACHE == <<"flatpak-cargo/git">>
COMMIT_LEN == 7

----------------------------------------------------------------------------
(* The url crate, as far as the code uses it *)

\* Url::parse: <<scheme, "://", host>> \o path \o ("?" query)? \o ("#" fragment)?
IsSpecial(scheme) == scheme \in {"https", "http"}

NoUrl == [scheme |-> "", host |-> "", path |-> <<>>, query |-> None, fragment |-> None]

UrlParse(s) ==
    IF Len(s) < 3 \/ s[2] # "://" \/ s[3] = ""
    THEN [err |-> "UrlParseError", url |-> NoUrl]
    ELSE LET rest == SubSeq(s, 4, Len(s))
             h == FirstIdx(rest, "#")
             beforeHash == SubSeq(rest, 1, h - 1)
             q == FirstIdx(beforeHash, "?")
             rawPath == SubSeq(beforeHash, 1, q - 1)
         IN [err |-> "",
             url |-> [scheme |-> s[1],
                      host |-> s[3],
                      path |-> IF rawPath = <<>> /\ IsSpecial(s[1]) THEN <<"/">> ELSE rawPath,
                      query |-> IF q <= Len(beforeHash)
                                THEN Some(SubSeq(beforeHash, q + 1, Len(beforeHash)))
                                ELSE None,
                      fragment |-> IF h <= Len(rest)
                                   THEN Some(SubSeq(rest, h + 1, Len(rest)))
                                   ELSE None]]

\* Url::to_string
UrlToString(u) ==
    <<u.scheme, "://", u.host>> \o u.path
        \o (IF u.query = None THEN <<>> ELSE <<"?">> \o u.query[1])
        \o (IF u.fragment = None THEN <<>> ELSE <<"#">> \o u.fragment[1])

\* Url::set_path: a path of a URL with a host starts with "/"; the empty path of
\* a special scheme is "/"
SetPath(u, p) ==
    [u EXCEPT !.path = IF p = <<>>
                       THEN (IF IsSpecial(u.scheme) THEN <<"/">> ELSE <<>>)
                       ELSE IF p[1] = "/" THEN p ELSE <<"/">> \o p]

\* Url::query_pairs().collect::<HashMap>().get(key): k "=" v joined by "&",
\* the last pair of a key wins
QueryGet(u, key) ==
    IF u.query = None THEN None
    ELSE LET q == u.query[1]
             at == {i \in 1..Len(q) : /\ q[i] = key
                                      /\ (i = 1 \/ q[i - 1] = "&")
                                      /\ i + 2 <= Len(q)
                                      /\ q[i + 1] = "="}
         IN IF at = {} THEN None
            ELSE Some(<<q[(CHOOSE i \in at : \A j \in at : j <= i) + 2]>>)

\* str::to_lowercase, token by token
ToLower(tok) ==
    CASE tok = "R" -> "r"
      [] tok = ".GIT" -> ".git"
      [] OTHER -> tok

ToUpper(tok) ==
    CASE tok = "r" -> "R"
      [] tok = ".git" -> ".GIT"
      [] OTHER -> tok

LowerPath(p) == [i \in 1..Len(p) |-> ToLower(p[i])]
UpperPath(p) == [i \in 1..Len(p) |-> ToUpper(p[i])]

\* str::trim_end_matches: strips the pattern repeatedly
RECURSIVE TrimEndMatches(_, _)
TrimEndMatches(p, tok) ==
    IF p # <<>> /\ Last(p) = tok THEN TrimEndMatches(Front(p), tok) ELSE p

EndsWith(p, tok) == p # <<>> /\ Last(p) = tok

\* url.replace("git+https://", "https://")
ReplaceGitHttps(s) ==
    IF Len(s) >= 2 /\ s[1] = "git+https" /\ s[2] = "://"
    THEN <<"https">> \o Tail(s)
    ELSE s

\* source.starts_with("git+")
StartsWithGit(s) == s # <<>> /\ s[1] \in {"git+https", "git+http"}

----------------------------------------------------------------------------
(* The URL canonicalizer *)

CanonErr(e) == [err |-> e, url |-> NoUrl, vendored |-> {}]

\* main.rs canonical_url
canonical_url(s) ==
    LET parsed == UrlParse(ReplaceGitHttps(s))
    IN IF parsed.err # "" THEN CanonErr(parsed.err)
       ELSE LET u0 == [parsed.url EXCEPT !.query = None, !.fragment = None]
                u1 == SetPath(u0, TrimEndMatches(u0.path, "/"))
                github == u1.host = "github.com"
                u2 == IF github
                      THEN SetPath([u1 EXCEPT !.scheme = "https"], LowerPath(u1.path))
                      ELSE u1
                u3 == IF EndsWith(u2.path, ".git")
                      THEN SetPath(u2, TrimEndMatches(u2.path, ".git"))
                      ELSE u2
            IN IF github /\ ~IsSpecial(u1.scheme)
               THEN CanonErr("SetSchemePanic")   \* set_scheme("https").unwrap()
               ELSE [err |-> "", url |-> u3, vendored |-> {}]

\* sources.rs parse_url: the canonical URL and the vendor-config value
parse_url(s) ==
    LET parsed == UrlParse(ReplaceGitHttps(s))
    IN IF parsed.err # "" THEN CanonErr(parsed.err)
       ELSE LET p == parsed.url
                rev == QueryGet(p, "rev")
                tag == QueryGet(p, "tag")
                branch == QueryGet(p, "branch")
                v0 == IF rev # None THEN {<<"rev", rev[1]>>}
                      ELSE IF tag # None THEN {<<"tag", tag[1]>>}
                      ELSE IF branch # None THEN {<<"branch", branch[1]>>}
                      ELSE {}
                u0 == [p EXCEPT !.query = None, !.fragment = None]
                u1 == SetPath(u0, TrimEndMatches(TrimEndMatches(u0.path, "/"), ".git"))
                v1 == MapInsert(v0, "git", UrlToString(u1))
                v2 == MapInsert(v1, "replace-with", VENDORED_SOURCES)
            IN [err |-> "", url |-> u1, vendored |-> v2]

\* the canonicalizer of the running variant
Canonicalize(v, s) == IF v = "main" THEN canonical_url(s) ELSE parse_url(s)

----------------------------------------------------------------------------
(* Inputs of the canonicalizer *)

Variants == {"main", "sources"}
PathTokens == {"/", ".git", ".GIT", "r", "R"}
RawPaths == {<<>>} \cup {<<"/">> \o t : t \in SeqsUpTo(PathTokens, MaxPathLen)}
RawSchemes == {"https", "http", "git+https"}
RawHosts == {"github.com", "example.org", ""}
Commit1 == <<"a", "a", "a", "a", "a", "a", "a", "1">>
Commit3 == <<"b", "b", "b", "b", "b", "b", "b", "3">>
RawTails == {<<>>, <<"?", "rev", "=", "v1", "#">> \o Commit1}
RawUrls == {<<sc, "://", h>> \o p \o t :
               sc \in RawSchemes, h \in RawHosts, p \in RawPaths, t \in RawTails}

\* another spelling of the raw URL s: with or without the git+ prefix, the path
\* in upper case or as it is, one "/" or ".git" appended to the path or not
Respell(s, gitPlus, upper, suffix) ==
    LET parsed == UrlParse(s)
        u == parsed.url
        sc == IF u.scheme \in {"https", "git+https"}
              THEN (IF gitPlus THEN "git+https" ELSE "https")
              ELSE u.scheme
        p == IF upper THEN UpperPath(u.path) ELSE u.path
    IN UrlToString([u EXCEPT !.scheme = sc, !.path = p \o suffix])

UrlIdle ==
    /\ upc = "idle" /\ url_raw = <<>> /\ url_alt = <<>>
    /\ canon1 = CanonErr("") /\ canon2 = CanonErr("")

DriverIdle ==
    /\ lock = <<>> /\ idx = 1 /\ package_sources = <<>> /\ cargo_vendored_sources = {}
    /\ status = "idle" /\ error = "" /\ output = <<>> /\ effects = <<>>

WalkIdle ==
    /\ fs = {} /\ packages = {} /\ stack = <<>> /\ wpc = "idle" /\ members = <<>>

InitUrl ==
    /\ variant \in Variants
    /\ upc = "input"
    /\ url_raw \in RawUrls
    /\ url_alt = <<>>
    /\ canon1 = CanonErr("") /\ canon2 = CanonErr("")
    /\ DriverIdle
    /\ WalkIdle

\* canonicalize(u)
CanonicalizeOnce ==
    /\ upc = "input"
    /\ canon1' = Canonicalize(variant, url_raw)
    /\ upc' = "once"
    /\ UNCHANGED <<variant, url_raw, url_alt, canon2, driverVars, fs, walkVars>>

\* canonicalize(canonicalize(u).url)
CanonicalizeAgain ==
    /\ upc = "once"
    /\ canon1.err = ""
    /\ url_alt' = UrlToString(canon1.url)
    /\ canon2' = Canonicalize(variant, url_alt')
    /\ upc' = "twice"
    /\ UNCHANGED <<variant, url_raw, canon1, driverVars, fs, walkVars>>

\* canonicalize(another spelling of u)
CanonicalizeSpelling ==
    /\ upc = "once"
    /\ canon1.err = ""
    /\ \E gitPlus \in BOOLEAN, upper \in BOOLEAN, suffix \in {<<>>, <<"/">>, <<".git">>} :
          /\ url_alt' = Respell(url_raw, gitPlus, upper, suffix)
          /\ canon2' = Canonicalize(variant, url_alt')
    /\ upc' = "pair"
    /\ UNCHANGED <<variant, url_raw, canon1, driverVars, fs, walkVars>>

NextUrl == CanonicalizeOnce \/ CanonicalizeAgain \/ CanonicalizeSpelling

SpecUrl == InitUrl /\ [][NextUrl]_vars

----------------------------------------------------------------------------
(* toml::Value.  A value is the set of its leaves, each <<key path, string>>: *)
(* the table {package = {name = "a"}} is {<<<<"package", "name">>, <<"a">>>>}; *)
(* a string is {<<<<>>, s>>}; an absent value is {}.  An array is a table     *)
(* keyed "0", "1", ...                                                        *)

TStr(s) == {<<<<>>, s>>}
TLeaf(path, s) == {<<path, s>>}
TPrefix(k, v) == {<<<<k>> \o e[1], e[2]>> : e \in v}
\* Value::get(key)
TGet(v, k) == {<<Tail(e[1]), e[2]>> : e \in {x \in v : x[1] # <<>> /\ x[1][1] = k}}
TKeys(v) == {e[1][1] : e \in {x \in v : x[1] # <<>>}}
\* Value::as_table is Some
IsTable(v) == v # {} /\ \A e \in v : e[1] # <<>>
\* Value::as_str
AsStr(v) == IF v # {} /\ \A e \in v : e[1] = <<>> THEN Some((CHOOSE e \in v : TRUE)[2]) ELSE None
\* Map::insert(key, value)
TInsert(v, k, sub) == {e \in v : ~(e[1] # <<>> /\ e[1][1] = k)} \cup TPrefix(k, sub)

\* iteration order of a toml Map (a BTreeMap: sorted by key) and of an array
KeyOrder == <<"0", "1", "a", "b", "cfg", "dependencies", "package", "target", "workspace", "x">>
SortedKeys(S) == LET In(k) == k \in S IN SelectSeq(KeyOrder, In)

\* GitPackage { path, package, workspace }
GitPackage(path, package, workspace) ==
    [path |-> path, package |-> package, workspace |-> workspace]

\* the keys of a section whose value is a table with a "workspace" key
keys_to_replace(section) ==
    {k \in TKeys(section) : IsTable(TGet(section, k)) /\ "workspace" \in TKeys(TGet(section, k))}

\* one section of GitPackage::normalized: a marked key takes the value the
\* workspace table has under the same section and key, when it has one
NormalizedSection(section_key, section, workspace) ==
    IF ~IsTable(section) THEN section
    ELSE LET workspace_section == TGet(workspace, section_key)
             replaced == IF IsTable(workspace_section)
                         THEN {k \in keys_to_replace(section) : TGet(workspace_section, k) # {}}
                         ELSE {}
         IN {e \in section : e[1][1] \notin replaced}
            \cup UNION {TPrefix(k, TGet(workspace_section, k)) : k \in replaced}

\* GitPackage::normalized
normalized(pkg) ==
    IF pkg.workspace = None THEN pkg.package
    ELSE {e \in pkg.package : e[1] = <<>>}
         \cup UNION {TPrefix(sk, NormalizedSection(sk, TGet(pkg.package, sk), pkg.workspace[1])) :
                        sk \in TKeys(pkg.package)}

----------------------------------------------------------------------------
(* Paths.  A path is the sequence of its components.                        *)

\* the components of a path string: its tokens without the separators
PathOf(s) == LET NotSep(t) == t # "/" IN SelectSeq(s, NotSep)

\* Path::to_string_lossy
RECURSIVE PathToString(_)
PathToString(p) ==
    IF p = <<>> THEN <<>>
    ELSE IF Len(p) = 1 THEN p
    ELSE <<p[1], "/">> \o PathToString(Tail(p))

\* pathdiff::diff_paths(path, "."): the path without its leading "."
DiffFromCurDir(p) == IF p # <<>> /\ p[1] = "." THEN Tail(p) ELSE p

\* the directory a path names: "." dropped, ".." taking the parent
RECURSIVE ResolveDir(_, _)
ResolveDir(p, acc) ==
    IF p = <<>> THEN acc
    ELSE IF p[1] = "." THEN ResolveDir(Tail(p), acc)
    ELSE IF p[1] = ".." THEN (IF acc = <<>> THEN <<"..">> ELSE ResolveDir(Tail(p), Front(acc)))
    ELSE ResolveDir(Tail(p), Append(acc, p[1]))

\* where the checkout's root manifest is: main.rs walks "." after
\* set_current_dir(checkout); sources.rs is given the manifest's path
root_dir(v) == IF v = "main" THEN <<".">> ELSE <<"repo">>

\* std::fs::read_to_string(dir.join("Cargo.toml")) and toml::from_str
ReadManifest(v, files, dir) ==
    LET r == ResolveDir(dir, <<>>)
        inCheckout == IF v = "main" THEN r
                      ELSE IF r # <<>> /\ r[1] = "repo" THEN Tail(r) ELSE <<"..">>
    IN MapGet(files, inCheckout)

\* glob::glob("{root_dir}/{member}/Cargo.toml"): the directories of the
\* manifests that match, in alphabetical order; "*" matches any one directory
DirOrder == <<"a", "b">>
Glob(v, files, member) ==
    LET Match(d) == /\ (member = <<"*">> \/ member = <<d>>)
                    /\ ReadManifest(v, files, root_dir(v) \o <<d>>) # None
        found == SelectSeq(DirOrder, Match)
    IN [i \in 1..Len(found) |-> DiffFromCurDir(root_dir(v) \o <<found[i]>>)]

\* workspace.members, each expanded by glob, in order
RECURSIVE ExpandMembers(_, _, _)
ExpandMembers(v, files, ms) ==
    IF ms = <<>> THEN <<>>
    ELSE Glob(v, files, ms[1]) \o ExpandMembers(v, files, Tail(ms))

WorkspaceMembers(root_toml) ==
    LET arr == TGet(TGet(root_toml, "workspace"), "members")
        idxs == SortedKeys({k \in TKeys(arr) : AsStr(TGet(arr, k)) # None})
    IN [i \in 1..Len(idxs) |-> AsStr(TGet(arr, idxs[i]))[1]]

----------------------------------------------------------------------------
(* The workspace manifest walker: get_cargo_toml_packages and its inner     *)
(* get_dep_packages, one step per loop iteration, call and return.          *)

\* deepest recursion of get_dep_packages the model follows
MaxDepth == 4

\* Frame for a get_dep_packages that never looks at the target tables
Frame_NoTargets(entry, toml_dir, workspace, cont) ==
    [entry |-> entry, toml_dir |-> toml_dir, workspace |-> workspace,
     deps |-> IF IsTable(TGet(entry, "dependencies"))
              THEN SortedKeys(TKeys(TGet(entry, "dependencies"))) ELSE <<>>,
     targets |-> <<>>,
     cont |-> cont]

\* a call of get_dep_packages(entry, toml_dir, workspace, ..) and what the
\* caller does when it returns
Frame(entry, toml_dir, workspace, cont) ==
    [entry |-> entry, toml_dir |-> toml_dir, workspace |-> workspace,
     deps |-> IF IsTable(TGet(entry, "dependencies"))
              THEN SortedKeys(TKeys(TGet(entry, "dependencies"))) ELSE <<>>,
     targets |-> IF IsTable(TGet(entry, "target"))
                 THEN SortedKeys(TKeys(TGet(entry, "target"))) ELSE <<>>,
     cont |-> cont]

\* packages.insert(name, GitPackage {..}) after the call; name is None when
\* the manifest declares no package name
InsertCont(name, pkg) == [insert |-> TRUE, name |-> name, pkg |-> pkg]
NoCont == [insert |-> FALSE, name |-> None, pkg |-> GitPackage(<<>>, {}, None)]

PackageName(manifest) == AsStr(TGet(TGet(manifest, "package"), "name"))

\* the name a dependency is looked up by: its package = override, else its key
DepName(key, dep) ==
    IF AsStr(TGet(dep, "package")) # None THEN AsStr(TGet(dep, "package"))[1] ELSE <<key>>

\* the record stored for a path dependency
DepPackage(dep_dir, dep, dep_toml, workspace) == GitPackage(dep_dir, dep, workspace)

Top == stack[Len(stack)]
Panic(kind) == status' = "panic" /\ error' = kind

walkFixed == <<variant, urlVars, lock, idx, package_sources, cargo_vendored_sources,
               output, effects, fs>>

\* get_cargo_toml_packages up to its first loop
WalkStart ==
    /\ status = "running" /\ wpc = "start"
    /\ LET root_toml == ReadManifest(variant, fs, root_dir(variant))[1]
       IN IF TGet(root_toml, "package") = {} /\ TGet(root_toml, "workspace") = {}
          THEN /\ Panic("AssertPackageOrWorkspace")
               /\ wpc' = "panic"
               /\ UNCHANGED <<packages, stack, members>>
          ELSE /\ wpc' = "walking"
               /\ packages' = {}
               /\ members' = ExpandMembers(variant, fs, WorkspaceMembers(root_toml))
               /\ stack' = IF TGet(root_toml, "package") # {}
                           THEN <<Frame(root_toml, root_dir(variant), None,
                                        InsertCont(PackageName(root_toml),
                                                   GitPackage(root_dir(variant), root_toml, None)))>>
                           ELSE <<>>
               /\ UNCHANGED <<status, error>>
    /\ UNCHANGED walkFixed

\* a dependency without path, or one whose name is in the map already: continue
DepSkip ==
    /\ status = "running" /\ wpc = "walking" /\ stack # <<>> /\ Top.deps # <<>>
    /\ LET key == Top.deps[1]
           dep == TGet(TGet(Top.entry, "dependencies"), key)
       IN TGet(dep, "path") = {} \/ DepName(key, dep) \in MapKeys(packages)
    /\ stack' = [stack EXCEPT ![Len(stack)].deps = Tail(@)]
    /\ UNCHANGED <<packages, wpc, members, status, error>>
    /\ UNCHANGED walkFixed

\* a path dependency not yet in the map: load its manifest, check its name,
\* and call get_dep_packages on it
DepLoad ==
    /\ status = "running" /\ wpc = "walking" /\ stack # <<>> /\ Top.deps # <<>>
    /\ Len(stack) < MaxDepth
    /\ LET key == Top.deps[1]
           dep == TGet(TGet(Top.entry, "dependencies"), key)
           dep_name == DepName(key, dep)
           dep_dir == DiffFromCurDir(Top.toml_dir \o PathOf(AsStr(TGet(dep, "path"))[1]))
           dep_toml == ReadManifest(variant, fs, dep_dir)
       IN /\ TGet(dep, "path") # {}
          /\ dep_name \notin MapKeys(packages)
          /\ IF dep_toml = None
             THEN /\ Panic("ManifestNotFound")
                  /\ wpc' = "panic"
                  /\ UNCHANGED stack
             ELSE IF PackageName(dep_toml[1]) # Some(dep_name)
             THEN /\ Panic("PackageNameMismatch")
                  /\ wpc' = "panic"
                  /\ UNCHANGED stack
             ELSE /\ stack' = Append([stack EXCEPT ![Len(stack)].deps = Tail(@)],
                                     Frame(dep_toml[1], dep_dir, Top.workspace,
                                           InsertCont(Some(dep_name),
                                                      DepPackage(dep_dir, dep, dep_toml[1],
                                                                 Top.workspace))))
                  /\ UNCHANGED <<wpc, status, error>>
    /\ UNCHANGED <<packages, members>>
    /\ UNCHANGED walkFixed

\* the dependencies are done: call get_dep_packages on the next target table
TargetEnter ==
    /\ status = "running" /\ wpc = "walking" /\ stack # <<>>
    /\ Top.deps = <<>> /\ Top.targets # <<>>
    /\ Len(stack) < MaxDepth
    /\ stack' = Append([stack EXCEPT ![Len(stack)].targets = Tail(@)],
                       Frame(TGet(TGet(Top.entry, "target"), Top.targets[1]),
                             Top.toml_dir, Top.workspace, NoCont))
    /\ UNCHANGED <<packages, wpc, members, status, error>>
    /\ UNCHANGED walkFixed

\* get_dep_packages returns Ok(()); the caller inserts the package it was
\* called for (the dependency, the root package or the workspace member)
Return ==
    /\ status = "running" /\ wpc = "walking" /\ stack # <<>>
    /\ Top.deps = <<>> /\ Top.targets = <<>>
    /\ IF Top.cont.insert /\ Top.cont.name = None
       THEN /\ Panic("PackageNameUnwrap")
            /\ wpc' = "panic"
            /\ UNCHANGED <<packages, stack>>
       ELSE /\ packages' = IF Top.cont.insert
                           THEN MapInsert(packages, Top.cont.name[1], Top.cont.pkg)
                           ELSE packages
            /\ stack' = Front(stack)
            /\ UNCHANGED <<wpc, status, error>>
    /\ UNCHANGED members
    /\ UNCHANGED walkFixed

\* the next workspace member that glob found: load it and call
\* get_dep_packages on it with the workspace attached
MemberLoad ==
    /\ status = "running" /\ wpc = "walking" /\ stack = <<>> /\ members # <<>>
    /\ LET subpkg == members[1]
           pkg_toml == ReadManifest(variant, fs, subpkg)[1]
           workspace == Some(TGet(ReadManifest(variant, fs, root_dir(variant))[1], "workspace"))
       IN stack' = <<Frame(pkg_toml, subpkg, workspace,
                           InsertCont(PackageName(pkg_toml),
                                      GitPackage(subpkg, pkg_toml, workspace)))>>
    /\ members' = Tail(members)
    /\ UNCHANGED <<packages, wpc, status, error>>
    /\ UNCHANGED walkFixed

\* glob yields Err(e) for the next match: it is printed and the loop goes on
MemberGlobError ==
    /\ status = "running" /\ wpc = "walking" /\ stack = <<>> /\ members # <<>>
    /\ members' = Tail(members)
    /\ effects' = Append(effects, <<"glob_error", idx>>)
    /\ UNCHANGED <<packages, stack, wpc, status, error>>
    /\ UNCHANGED <<variant, urlVars, lock, idx, package_sources, cargo_vendored_sources,
                   output, fs>>

\* Ok(packages)
WalkFinish ==
    /\ status = "running" /\ wpc = "walking" /\ stack = <<>> /\ members = <<>>
    /\ wpc' = "done"
    /\ UNCHANGED <<packages, stack, members, status, error>>
    /\ UNCHANGED walkFixed

----------------------------------------------------------------------------
(* Checkouts: the manifests of a repository, by directory.  The root        *)
(* manifest is at <<>>, the packages "a" and "b" in the directories a and b. *)

WorkspaceMarker == <<"true">>

RootManifest(hasPackage, deps, marked, ms, shared) ==
    (IF hasPackage
     THEN TLeaf(<<"package", "name">>, <<"r">>)
          \cup UNION {TLeaf(<<"dependencies", d, "path">>, <<d>>) : d \in deps}
          \cup (IF marked /\ ms # <<>>
                THEN TLeaf(<<"dependencies", "x", "workspace">>, WorkspaceMarker) ELSE {})
     ELSE {})
    \cup (IF ms # <<>>
          THEN UNION {TLeaf(<<"workspace", "members", KeyOrder[i]>>, ms[i]) : i \in 1..Len(ms)}
               \cup TLeaf(<<"workspace", "package", "version">>, <<"1.0.0">>)
               \cup (IF shared
                     THEN TLeaf(<<"workspace", "dependencies", "x", "version">>, <<"1">>)
                     ELSE {})
          ELSE {})

DepTable(where) == IF where = "target" THEN <<"target", "cfg", "dependencies">> ELSE <<"dependencies">>

PackageManifest(name, other, depWhere, markWhere) ==
    (IF name # None THEN TLeaf(<<"package", "name">>, name[1]) ELSE {})
    \cup (IF depWhere \in {"dependencies", "target"}
          THEN TLeaf(DepTable(depWhere) \o <<other, "path">>, <<"..", "/", other>>)
          ELSE {})
    \cup (IF markWhere \in {"dependencies", "target"}
          THEN TLeaf(DepTable(markWhere) \o <<"x", "workspace">>, WorkspaceMarker)
          ELSE IF markWhere = "package"
          THEN TLeaf(<<"package", "version", "workspace">>, WorkspaceMarker)
          ELSE {})

Checkout(root, a, b, bExists) ==
    {<<<<>>, root>>, <<<<"a">>, a>>} \cup (IF bExists THEN {<<<<"b">>, b>>} ELSE {})

MemberLists == {<<>>, <<<<"a">>>>, <<<<"b">>, <<"a">>>>, <<<<"*">>>>}
Wheres == {"none", "dependencies", "target"}

Checkouts ==
    {Checkout(RootManifest(hasPackage, deps, marked, ms, shared),
              PackageManifest(aName, "b", aDep, aMark),
              PackageManifest(Some(<<"b">>), "a", bDep, "none"),
              bExists) :
        hasPackage \in BOOLEAN, deps \in SUBSET {"a", "b"}, marked \in BOOLEAN,
        ms \in MemberLists, shared \in BOOLEAN,
        aName \in {Some(<<"a">>), Some(<<"z">>), None}, aDep \in Wheres,
        aMark \in Wheres \cup {"package"},
        bDep \in {"none", "dependencies"}, bExists \in BOOLEAN}

InitWalk ==
    /\ variant \in Variants
    /\ UrlIdle
    /\ lock = <<>> /\ idx = 1 /\ package_sources = <<>> /\ cargo_vendored_sources = {}
    /\ status = "running" /\ error = "" /\ output = <<>> /\ effects = <<>>
    /\ fs \in Checkouts
    /\ packages = {} /\ stack = <<>> /\ wpc = "start" /\ members = <<>>

NextWalk ==
    \/ WalkStart
    \/ DepSkip
    \/ DepLoad
    \/ TargetEnter
    \/ Return
    \/ MemberLoad
    \/ MemberGlobError
    \/ WalkFinish

SpecWalk == InitWalk /\ [][NextWalk]_vars

----------------------------------------------------------------------------
(* The source resolver: get_package_sources and get_git_package_sources     *)

\* the contents of an inline file: a text, or toml::to_string of a manifest
\* or of the vendor config
Text(s) == [text |-> s, toml |-> {}, config |-> {}]
TomlDoc(v) == [text |-> <<>>, toml |-> v, config |-> {}]
ConfigDoc(m) == [text |-> <<>>, toml |-> {}, config |-> m]

Archive(url, sha256, dest) ==
    [type |-> "archive", archive_type |-> <<"tar-gzip">>, url |-> url, sha256 |-> sha256,
     dest |-> dest]
Inline(contents, dest, dest_filename) ==
    [type |-> "inline", contents |-> contents, dest |-> dest, dest_filename |-> dest_filename]
Git(url, commit, dest) == [type |-> "git", url |-> url, commit |-> commit, dest |-> dest]
Shell(commands) == [type |-> "shell", commands |-> commands]

\* lock_file::Package
Package(name, version, source, checksum) ==
    [name |-> name, version |-> version, source |-> source, checksum |-> checksum]

\* which branch of get_package_sources an entry takes; "none" returns None
Classify(package) ==
    IF package.source = None THEN "none"
    ELSE IF StartsWithGit(package.source[1]) THEN "git"
    ELSE IF package.checksum # None THEN "registry"
    ELSE "none"

\* RegistrySources without the checksum file
RegistrySources_ArchiveOnly(package) ==
    <<Archive(CRATES_IO \o <<"/">> \o package.name \o <<"/">> \o package.name \o <<"-">>
                  \o package.version \o <<".crate">>,
              package.checksum[1],
              CARGO_CRATES \o <<"/">> \o package.name \o <<"-">> \o package.version)>>

\* RegistrySources unpacking every version of a crate into one directory
RegistrySources_DestWithoutVersion(package) ==
    <<Archive(CRATES_IO \o <<"/">> \o package.name \o <<"/">> \o package.name \o <<"-">>
                  \o package.version \o <<".crate">>,
              package.checksum[1],
              CARGO_CRATES \o <<"/">> \o package.name),
      Inline(Text(<<"{\"package\": \"">> \o package.checksum[1] \o <<"\", \"files\": {}}">>),
             CARGO_CRATES \o <<"/">> \o package.name, <<".cargo-checksum.json">>)>>

\* the registry branch: the archive and its checksum file
RegistrySources(package) ==
    LET name == package.name
        version == package.version
        checksum == package.checksum[1]
        dest == CARGO_CRATES \o <<"/">> \o name \o <<"-">> \o version
    IN <<Archive(CRATES_IO \o <<"/">> \o name \o <<"/">> \o name \o <<"-">> \o version
                     \o <<".crate">>,
                 checksum, dest),
         Inline(Text(<<"{\"package\": \"">> \o checksum \o <<"\", \"files\": {}}">>),
                dest, <<".cargo-checksum.json">>)>>

\* the registry branch: its vendor-config entry
RegistryConfig ==
    {<<<<"crates-io">>, {<<"replace-with", VENDORED_SOURCES>>}>>}

\* GitCommit falling back to an empty commit instead of failing
GitCommit_OrEmpty(source) ==
    IF UrlParse(source).err # "" \/ UrlParse(source).url.fragment = None
    THEN Some(<<>>)
    ELSE UrlParse(source).url.fragment

\* Url::parse(&source).unwrap().fragment()
GitCommit(source) ==
    IF UrlParse(source).err # "" THEN None ELSE UrlParse(source).url.fragment

\* path.split('/').last()
LastSegment(path) ==
    LET seps == {i \in 1..Len(path) : path[i] = "/"}
        from == IF seps = {} THEN 1 ELSE (CHOOSE i \in seps : \A j \in seps : j <= i) + 1
    IN SubSeq(path, from, Len(path))

git_repo_name(v, git_url, commit) ==
    LastSegment(Canonicalize(v, git_url).url.path) \o <<"-">> \o SubSeq(commit, 1, COMMIT_LEN)

\* the git branch: the descriptors of a package found in the PackageMap
GitSources(v, package, commit, repo_url, git_pkg) ==
    LET name == package.name
        dest == name \o <<"-">> \o SubSeq(commit, 1, COMMIT_LEN)
        pkg_repo_dir == GIT_CACHE \o <<"/">> \o git_repo_name(v, repo_url, commit)
                            \o <<"/">> \o PathToString(git_pkg.path)
        shell == Shell(<<<<"cp -r --reflink=auto \"">> \o pkg_repo_dir \o <<"\" \"">>
                           \o CARGO_CRATES \o <<"/">> \o name \o <<"\"">>>>)
        cargo_toml == Inline(TomlDoc(normalized(git_pkg)),
                             CARGO_CRATES \o <<"/">> \o name, <<"Cargo.toml">>)
        cargo_checksum == Inline(Text(<<"{\"package\": null, \"files\": {}}">>),
                                 CARGO_CRATES \o <<"/">> \o name, <<".cargo-checksum.json">>)
        git == Git(repo_url, commit, dest)
    IN IF v = "main"
       THEN <<shell, cargo_toml, cargo_checksum>>
       ELSE <<git, shell, cargo_toml, cargo_checksum>>

\* the git branch: its vendor-config entry
GitConfig(v, canonical) ==
    IF v = "main" THEN {}
    ELSE {<<UrlToString(canonical.url), canonical.vendored>>}

\* MergeConfig keeping the value a key already has
MergeConfig_KeepFirst(config, entry) ==
    config \cup {p \in entry : p[1] \notin MapKeys(config)}

\* for (key, value) in cargo_vendored_entry { cargo_vendored_sources.insert(key, value) }
MergeConfig(config, entry) ==
    {p \in config : p[1] \notin MapKeys(entry)} \cup entry

\* the config main starts from
InitialConfig == {<<VENDORED_SOURCES, {<<"directory", CARGO_CRATES>>}>>}

\* what main prints: the descriptors and the trailing config file
FinalSources(sources, config) ==
    Append(sources, Inline(ConfigDoc(config), CARGO_HOME, <<"config">>))

Entry == lock[idx]

driverFixed == <<variant, urlVars, lock, output, fs>>

\* an entry that get_package_sources returns None for
ResolveNone ==
    /\ status = "running" /\ wpc = "idle" /\ idx <= Len(lock)
    /\ Classify(Entry) = "none"
    /\ idx' = idx + 1
    /\ UNCHANGED <<package_sources, cargo_vendored_sources, status, error, effects, walkVars>>
    /\ UNCHANGED driverFixed

\* a registry entry: its descriptors are appended and its config entry merged
ResolveRegistry ==
    /\ status = "running" /\ wpc = "idle" /\ idx <= Len(lock)
    /\ Classify(Entry) = "registry"
    /\ package_sources' = package_sources \o RegistrySources(Entry)
    /\ cargo_vendored_sources' = MergeConfig(cargo_vendored_sources, RegistryConfig)
    /\ idx' = idx + 1
    /\ UNCHANGED <<status, error, effects, walkVars>>
    /\ UNCHANGED driverFixed

\* how fetch_git_repo's git commands end: all succeed; one cannot be run or
\* leaves no HEAD to compare (an io::Error or a panic); git fetch or git
\* checkout runs and exits with a failure status, which status()? does not test
FetchOutcomes == {"ok", "error", "exit_nonzero"}

\* a git entry, up to the call of the walker: the commit, the canonical URL,
\* the checkout (main.rs fetches it) and its root manifest
GitStart ==
    /\ status = "running" /\ wpc = "idle" /\ idx <= Len(lock)
    /\ Classify(Entry) = "git"
    /\ LET source == Entry.source[1]
           commit == GitCommit(source)
           canonical == Canonicalize(variant, source)
       IN IF UrlParse(source).err # ""
          THEN Panic("UrlParseError") /\ UNCHANGED <<effects, wpc>>
          ELSE IF commit = None
          THEN Panic("MissingCommitDisambiguator") /\ UNCHANGED <<effects, wpc>>
          ELSE IF canonical.err # ""
          THEN Panic(canonical.err) /\ UNCHANGED <<effects, wpc>>
          ELSE IF variant = "main"
          THEN \E fetched \in FetchOutcomes :
                  IF fetched = "error"
                  THEN /\ Panic("ExternalFetchFailure")
                       /\ effects' = Append(effects, <<"fetch", idx>>)
                       /\ UNCHANGED wpc
                  ELSE IF fetched = "exit_nonzero" /\ Len(commit[1]) >= COMMIT_LEN
                  THEN /\ effects' = effects \o <<<<"fetch_failed", idx>>, <<"read_manifest", idx>>>>
                       /\ wpc' = "start"
                       /\ UNCHANGED <<status, error>>
                  ELSE IF Len(commit[1]) < COMMIT_LEN
                  THEN /\ Panic("CommitSlice")
                       /\ effects' = Append(effects, <<"fetch", idx>>)
                       /\ UNCHANGED wpc
                  ELSE /\ effects' = effects \o <<<<"fetch", idx>>, <<"read_manifest", idx>>>>
                       /\ wpc' = "start"
                       /\ UNCHANGED <<status, error>>
          ELSE /\ effects' = Append(effects, <<"read_manifest", idx>>)
               /\ wpc' = "start"
               /\ UNCHANGED <<status, error>>
    /\ UNCHANGED <<idx, package_sources, cargo_vendored_sources, packages, stack, members>>
    /\ UNCHANGED driverFixed

\* a git entry, after the walker returned the PackageMap
GitFinish ==
    /\ status = "running" /\ wpc = "done" /\ idx <= Len(lock)
    /\ LET source == Entry.source[1]
           commit == GitCommit(source)[1]
           canonical == Canonicalize(variant, source)
           repo_url == UrlToString(canonical.url)
           git_pkg == MapGet(packages, Entry.name)
       IN IF variant = "main" /\ packages = {}
          THEN /\ Panic("NoPackagesFound")      \* get_git_repo_packages asserts !is_empty()
               /\ UNCHANGED <<idx, package_sources, cargo_vendored_sources, walkVars>>
          ELSE IF Len(commit) < COMMIT_LEN
          THEN /\ Panic("CommitSlice")
               /\ UNCHANGED <<idx, package_sources, cargo_vendored_sources, walkVars>>
          ELSE IF git_pkg = None
          THEN /\ Panic("PackageNotFound")
               /\ UNCHANGED <<idx, package_sources, cargo_vendored_sources, walkVars>>
          ELSE /\ package_sources' = package_sources
                                       \o GitSources(variant, Entry, commit, repo_url, git_pkg[1])
               /\ cargo_vendored_sources' = MergeConfig(cargo_vendored_sources,
                                                        GitConfig(variant, canonical))
               /\ idx' = idx + 1
               /\ packages' = {} /\ stack' = <<>> /\ members' = <<>> /\ wpc' = "idle"
               /\ UNCHANGED <<status, error>>
    /\ UNCHANGED effects
    /\ UNCHANGED driverFixed

\* after the loop: the descriptors and the config file are printed
Emit ==
    /\ status = "running" /\ wpc = "idle" /\ idx > Len(lock)
    /\ output' = FinalSources(package_sources, cargo_vendored_sources)
    /\ status' = "done"
    /\ UNCHANGED <<variant, urlVars, lock, idx, package_sources, cargo_vendored_sources,
                   error, effects, fs, walkVars>>

----------------------------------------------------------------------------
(* Lock files and the checkouts the runs of the driver see                  *)

\* entries of a lock file
MaxLock == 2

LockNames == {<<"serde">>, <<"a">>}
LockVersions == {<<"1.0.0">>}
Checksum == <<"abcd1234">>
RegistrySource == <<"registry+https", "://", "github.com", "/", "rust-lang", "/", "crates.io-index">>
GitSourceUrls ==
    {<<"git+https", "://", "github.com">> \o p \o t :
        p \in {<<"/", "o", "/", "r">>, <<"/", "o", "/", "R", ".git">>},
        t \in {<<"?", "rev", "=", "v1", "#">> \o Commit1,
               <<"?", "tag", "=", "v2", "#">> \o Commit3,
               <<"?", "rev", "=", "v1">>}}
LockEntries ==
    {Package(n, v, src, ck) :
        n \in LockNames, v \in LockVersions,
        src \in {None, Some(RegistrySource)}, ck \in {None, Some(Checksum)}}
    \cup {Package(n, v, Some(g), None) : n \in LockNames, v \in LockVersions, g \in GitSourceUrls}
Locks == SeqsUpTo(LockEntries, MaxLock)

\* a package r that path-depends on a, a depending on b for one target, and
\* a workspace with the member b, which inherits a dependency
CheckoutNested ==
    Checkout(RootManifest(TRUE, {"a"}, FALSE, <<<<"b">>>>, TRUE),
             PackageManifest(Some(<<"a">>), "b", "target", "none"),
             PackageManifest(Some(<<"b">>), "a", "none", "dependencies"),
             TRUE)
\* a workspace of the two members a and b
CheckoutFlat ==
    Checkout(RootManifest(FALSE, {}, FALSE, <<<<"*">>>>, FALSE),
             PackageManifest(Some(<<"a">>), "b", "none", "package"),
             PackageManifest(Some(<<"b">>), "a", "none", "none"),
             TRUE)
LockCheckouts == {CheckoutNested, CheckoutFlat}

Init ==
    /\ variant \in Variants
    /\ UrlIdle
    /\ lock \in Locks
    /\ idx = 1
    /\ package_sources = <<>>
    /\ cargo_vendored_sources = InitialConfig
    /\ status = "running" /\ error = "" /\ output = <<>> /\ effects = <<>>
    /\ fs \in LockCheckouts
    /\ packages = {} /\ stack = <<>> /\ wpc = "idle" /\ members = <<>>

Next ==
    \/ ResolveNone
    \/ ResolveRegistry
    \/ GitStart
    \/ WalkStart
    \/ DepSkip
    \/ DepLoad
    \/ TargetEnter
    \/ Return
    \/ MemberLoad
    \/ MemberGlobError
    \/ WalkFinish
    \/ GitFinish
    \/ Emit

Spec == Init /\ [][Next]_vars

----------------------------------------------------------------------------
(* C1: canonicalization is idempotent: canonicalizing the URL that a        *)
(* successful canonicalization returned gives exactly that URL again.       *)
C1_Idempotent ==
    upc = "twice" => (canon2.err = "" /\ canon2.url = canon1.url)

(* C2: on the github host the canonical form has scheme https and a         *)
(* lower-cased path, and spellings that differ only in the git+ prefix, the *)
(* case of the path, a trailing slash or a trailing .git have the same      *)
(* canonical URL; canonical_url and parse_url alike.                        *)
PlainPath(p) == ~EndsWith(p, "/") /\ ~EndsWith(p, ".git") /\ ~EndsWith(p, ".GIT")

C2_GithubSpellingsAgree ==
    (/\ upc = "pair"
     /\ UrlParse(url_raw).url.host = "github.com"
     /\ PlainPath(UrlParse(url_raw).url.path)
     /\ canon2.err = "")
    => /\ canon2.url = canon1.url
       /\ canon1.url.scheme = "https"
       /\ canon1.url.path = LowerPath(canon1.url.path)

(* C3: a lock file of N >= 1 registry entries with checksums and no git    *)
(* entry gives exactly 2N per-entry descriptors, an archive then an inline  *)
(* per entry, and a merged config with exactly one registry redirect,       *)
(* crates-io -> replace-with vendored-sources.                              *)
AllRegistry(l) == \A i \in 1..Len(l) : Classify(l[i]) = "registry"
Redirects(config) == {p \in config : "replace-with" \in MapKeys(p[2])}

C3_RegistryCounts ==
    (status = "done" /\ Len(lock) >= 1 /\ AllRegistry(lock)) =>
        /\ Len(package_sources) = 2 * Len(lock)
        /\ Len(output) = 2 * Len(lock) + 1
        /\ \A k \in 1..Len(lock) :
              /\ output[2 * k - 1].type = "archive"
              /\ output[2 * k].type = "inline"
        /\ Redirects(output[Len(output)].contents.config)
              = {<<<<"crates-io">>, {<<"replace-with", <<"vendored-sources">>>>}>>}

C3_Witness == status = "done" /\ Len(lock) = 2 /\ AllRegistry(lock)

(* C4, as claimed: every entry {name, version, checksum} that is not a git  *)
(* entry, the serde entry listed without a source field included, yields    *)
(* the archive and the inline checksum file.                                *)
ExpectedRegistry(e) ==
    <<[type |-> "archive", archive_type |-> <<"tar-gzip">>,
       url |-> <<"https://static.crates.io/crates", "/">> \o e.name \o <<"/">> \o e.name
                   \o <<"-">> \o e.version \o <<".crate">>,
       sha256 |-> e.checksum[1],
       dest |-> <<"cargo/vendor", "/">> \o e.name \o <<"-">> \o e.version],
      [type |-> "inline",
       contents |-> Text(<<"{\"package\": \"">> \o e.checksum[1] \o <<"\", \"files\": {}}">>),
       dest |-> <<"cargo/vendor", "/">> \o e.name \o <<"-">> \o e.version,
       dest_filename |-> <<".cargo-checksum.json">>]>>

Resolving == status = "running" /\ wpc = "idle" /\ idx <= Len(lock)

C4_AnyChecksumEntry ==
    [][(Resolving /\ Entry.checksum # None /\ Classify(Entry) # "git")
          => /\ idx' = idx + 1
             /\ package_sources' = package_sources \o ExpectedRegistry(Entry)]_vars

(* C4, amended: every entry with a checksum and a source that is not a git  *)
(* source yields the archive {registry-root}/{name}/{name}-{version}.crate  *)
(* with sha256 = checksum and dest {vendor-root}/{name}-{version}, then the *)
(* inline .cargo-checksum.json with the same dest; the serde entry does so  *)
(* when it carries its registry source.                                     *)
C4_RegistryDescriptors ==
    [][(Resolving /\ Entry.checksum # None /\ Entry.source # None /\ Classify(Entry) # "git")
          => /\ idx' = idx + 1
             /\ package_sources' = package_sources \o ExpectedRegistry(Entry)]_vars

C4_Witness ==
    /\ idx = 2
    /\ lock[1] = Package(<<"serde">>, <<"1.0.0">>, Some(RegistrySource), Some(<<"abcd1234">>))
    /\ Len(package_sources) = 2
    /\ package_sources[1].url = <<"https://static.crates.io/crates", "/", "serde", "/",
                                  "serde", "-", "1.0.0", ".crate">>
    /\ package_sources[1].dest = <<"cargo/vendor", "/", "serde", "-", "1.0.0">>
    /\ package_sources[2].dest_filename = <<".cargo-checksum.json">>

(* C5: resolving a git entry whose source has no #commit fragment fails     *)
(* with MissingCommitDisambiguator: no descriptor, no config entry, and no  *)
(* fetch and no manifest read before the failure.                           *)
NoFragment(e) ==
    /\ Classify(e) = "git"
    /\ UrlParse(e.source[1]).err = ""
    /\ UrlParse(e.source[1]).url.fragment = None

C5_MissingCommitFails ==
    [][(Resolving /\ NoFragment(Entry))
          => /\ status' = "panic"
             /\ error' = "MissingCommitDisambiguator"
             /\ package_sources' = package_sources
             /\ cargo_vendored_sources' = cargo_vendored_sources
             /\ effects' = effects
             /\ wpc' = "idle"
             /\ output' = <<>>]_vars

C5_Witness ==
    /\ status = "panic" /\ error = "MissingCommitDisambiguator"
    /\ idx = 2 /\ NoFragment(lock[2]) /\ Len(package_sources) = 2

(* C6: an entry with a source that is not a git source and with no checksum *)
(* is a fatal MissingChecksum error: the run never gets past such an entry. *)
MissingChecksum(e) ==
    e.source # None /\ ~StartsWithGit(e.source[1]) /\ e.checksum = None

C6_MissingChecksumFatal ==
    \A k \in 1..Len(lock) : MissingChecksum(lock[k]) => idx <= k

(* C7: a git entry whose package is in the PackageMap yields exactly three  *)
(* descriptors: the shell copy, the inline Cargo.toml and the inline        *)
(* .cargo-checksum.json, both in {vendor-root}/{name}.                      *)
C7_GitThreeDescriptors ==
    [][(status = "running" /\ wpc = "done" /\ idx' = idx + 1)
          => /\ Len(package_sources') = Len(package_sources) + 3
             /\ package_sources'[Len(package_sources) + 1].type = "shell"
             /\ package_sources'[Len(package_sources) + 2].type = "inline"
             /\ package_sources'[Len(package_sources) + 2].dest_filename = <<"Cargo.toml">>
             /\ package_sources'[Len(package_sources) + 2].dest
                   = <<"cargo/vendor", "/">> \o Entry.name
             /\ package_sources'[Len(package_sources) + 3].type = "inline"
             /\ package_sources'[Len(package_sources) + 3].dest_filename
                   = <<".cargo-checksum.json">>
             /\ package_sources'[Len(package_sources) + 3].dest
                   = <<"cargo/vendor", "/">> \o Entry.name]_vars

(* C8: every git entry has its own redirect in the final config, saying     *)
(* replace-with the vendor directory and carrying the entry's disambiguator *)
(* (rev, else tag, else branch), so entries of one repository pinned        *)
(* differently are all present.                                             *)
Disambiguator(source) ==
    LET u == UrlParse(source).url
    IN IF QueryGet(u, "rev") # None THEN {<<"rev", QueryGet(u, "rev")[1]>>}
       ELSE IF QueryGet(u, "tag") # None THEN {<<"tag", QueryGet(u, "tag")[1]>>}
       ELSE IF QueryGet(u, "branch") # None THEN {<<"branch", QueryGet(u, "branch")[1]>>}
       ELSE {}

C8_GitRedirectPerEntry ==
    status = "done" =>
        \A k \in 1..Len(lock) :
            Classify(lock[k]) = "git" =>
                \E p \in output[Len(output)].contents.config :
                    /\ "git" \in MapKeys(p[2])
                    /\ <<"replace-with", <<"vendored-sources">>>> \in p[2]
                    /\ Disambiguator(lock[k].source[1]) \subseteq p[2]

(* C9: workspace normalization eliminates all inheritance markers: for     *)
(* every record of the PackageMap the walker returns, normalized() holds no *)
(* table that still contains the "workspace" marker.                        *)
HasMarker(v) == \E e \in v : \E i \in 3..Len(e[1]) : e[1][i] = "workspace"

C9_NoMarkerLeft ==
    wpc = "done" => \A p \in packages : ~HasMarker(normalized(p[2]))

(* C10: the record stored under a name n holds the manifest that declares   *)
(* package n, the file at the record's path, however n was discovered.      *)
C10_RecordIsOwnManifest ==
    wpc = "done" =>
        \A p \in packages :
            /\ ReadManifest(variant, fs, p[2].path) = Some(p[2].package)
            /\ PackageName(p[2].package) = Some(p[1])

(* C11: the PackageMap is first-discovered-wins: during one walk a name is  *)
(* inserted at most once, so a record that is in the map stays in it        *)
(* unchanged whatever is discovered later (as a path dependency, as the     *)
(* root package or as a workspace member).                                  *)
C11_FirstDiscoveredWins ==
    [][(wpc = "walking" /\ wpc' = "walking") => \A p \in packages : p \in packages']_vars

(* C12: the output is the descriptors of the entries in lock-file order,    *)
(* each entry's own descriptors together and in the resolver's order and    *)
(* nothing for an entry that resolves to nothing, then exactly one trailing *)
(* inline file cargo/config holding the merged config: the vendor directory *)
(* and every contributed redirect, the later lock entry winning a key       *)
(* contributed twice.  The trailing file is last for every lock file.       *)
DescriptorCount(v, e) ==
    IF Classify(e) = "none" THEN 0
    ELSE IF Classify(e) = "registry" THEN 2
    ELSE IF v = "main" THEN 3 ELSE 4

RECURSIVE Offset(_, _, _)
Offset(v, l, k) == IF k <= 1 THEN 0 ELSE Offset(v, l, k - 1) + DescriptorCount(v, l[k - 1])

Contribution(v, e) ==
    IF Classify(e) = "registry" THEN {<<<<"crates-io">>, {<<"replace-with", <<"vendored-sources">>>>}>>}
    ELSE IF Classify(e) = "git" /\ v = "sources"
    THEN {<<UrlToString(parse_url(e.source[1]).url), parse_url(e.source[1]).vendored>>}
    ELSE {}

IsConfigFile(d) == d.type = "inline" /\ d.dest = <<"cargo">> /\ d.dest_filename = <<"config">>

MentionsName(d, name) ==
    IF d.type = "shell"
    THEN \E i \in 1..Len(d.commands[1]) - Len(name) :
            /\ d.commands[1][i] = "cargo/vendor"
            /\ SubSeq(d.commands[1], i + 2, i + 1 + Len(name)) = name
    ELSE IF d.type = "git" THEN SubSeq(d.dest, 1, Len(name)) = name
    ELSE d.dest = <<"cargo/vendor", "/">> \o name

C12_OutputAssembly ==
    status = "done" =>
        LET n == Len(output)
            config == output[n].contents.config
            Contributors(key) == {i \in 1..Len(lock) : key \in MapKeys(Contribution(variant, lock[i]))}
            LastOf(S) == CHOOSE i \in S : \A j \in S : j <= i
        IN /\ n = Offset(variant, lock, Len(lock) + 1) + 1
           /\ IsConfigFile(output[n])
           /\ \A i \in 1..(n - 1) : ~IsConfigFile(output[i])
           /\ \A k \in 1..Len(lock) :
                 LET from == Offset(variant, lock, k)
                     segment == SubSeq(output, from + 1, from + DescriptorCount(variant, lock[k]))
                 IN IF Classify(lock[k]) = "registry"
                    THEN segment = ExpectedRegistry(lock[k])
                    ELSE \A i \in 1..Len(segment) : MentionsName(segment[i], lock[k].name)
           /\ <<<<"vendored-sources">>, {<<"directory", <<"cargo/vendor">>>>}>> \in config
           /\ MapKeys(config) = {<<"vendored-sources">>}
                 \cup UNION {MapKeys(Contribution(variant, lock[i])) : i \in 1..Len(lock)}
           /\ \A key \in MapKeys(config) \ {<<"vendored-sources">>} :
                 MapGet(config, key)
                    = MapGet(Contribution(variant, lock[LastOf(Contributors(key))]), key)

SameKeyTwice ==
    /\ Len(lock) = 2 /\ variant = "sources"
    /\ Classify(lock[1]) = "git" /\ Classify(lock[2]) = "git"
    /\ MapKeys(Contribution(variant, lock[1])) = MapKeys(Contribution(variant, lock[2]))
    /\ Contribution(variant, lock[1]) # Contribution(variant, lock[2])

C12_Witness == status = "done" /\ SameKeyTwice

(* C13: fail-fast with no partial output: when resolving an entry fails (a  *)
(* URL that does not parse, no commit, a missing manifest, a name mismatch, *)
(* a missing checksum, or a failing external capability: git clone, fetch   *)
(* or checkout, the glob of the workspace members) the run aborts at that   *)
(* entry and emits nothing; output is emitted only when every entry was     *)
(* resolved successfully.                                                   *)
ExternalFailures == {"fetch_failed", "glob_error"}

FailedAt(k) ==
    \/ MissingChecksum(lock[k])
    \/ \E i \in 1..Len(effects) : effects[i][1] \in ExternalFailures /\ effects[i][2] = k

C13_FailFast ==
    /\ \A k \in 1..Len(lock) : FailedAt(k) => (idx <= k /\ output = <<>>)
    /\ status = "panic" => output = <<>>

(* C14: when the walker loads the manifest of a path dependency, the        *)
(* expected name is the dependency's package override, else its table key;  *)
(* a manifest declaring another name fails the walk with                    *)
(* PackageNameMismatch and nothing is inserted; a manifest declaring no     *)
(* package name does not fail the check.                                    *)
LoadingDep ==
    /\ status = "running" /\ wpc = "walking" /\ stack # <<>> /\ Top.deps # <<>>
    /\ Len(stack) < MaxDepth
    /\ LET dep == TGet(TGet(Top.entry, "dependencies"), Top.deps[1])
       IN /\ TGet(dep, "path") # {}
          /\ DepName(Top.deps[1], dep) \notin MapKeys(packages)
          /\ ReadManifest(variant, fs,
                DiffFromCurDir(Top.toml_dir \o PathOf(AsStr(TGet(dep, "path"))[1]))) # None

C14_NameCheck ==
    [][LoadingDep =>
          LET key == Top.deps[1]
              dep == TGet(TGet(Top.entry, "dependencies"), key)
              override == AsStr(TGet(dep, "package"))
              expected == IF override # None THEN override[1] ELSE <<key>>
              manifest == ReadManifest(variant, fs,
                              DiffFromCurDir(Top.toml_dir \o PathOf(AsStr(TGet(dep, "path"))[1])))[1]
              declared == AsStr(TGet(TGet(manifest, "package"), "name"))
          IN IF declared # None /\ declared[1] # expected
             THEN status' = "panic" /\ error' = "PackageNameMismatch" /\ packages' = packages
             ELSE status' = "running"]_vars

(* C15: the walker terminates on path-dependency cycles: a dependency met   *)
(* again while it is still being resolved is skipped, so no package is      *)
(* being resolved twice at once and the recursion is never deeper than the  *)
(* number of distinct package names.                                        *)
DeclaredNames == {PackageName(m[2])[1] : m \in {f \in fs : PackageName(f[2]) # None}}

Resolving_(i) == stack[i].cont.insert /\ stack[i].cont.name # None

C15_NoReentry ==
    /\ \A i, j \in 1..Len(stack) :
          (i < j /\ Resolving_(i) /\ Resolving_(j)) => stack[i].cont.name # stack[j].cont.name
    /\ Cardinality({i \in 1..Len(stack) : Resolving_(i)}) <= Cardinality(DeclaredNames)

(* C16: post-order insertion: over an acyclic path-dependency graph, when a *)
(* package is inserted every package it path-depends on, in dependencies or *)
(* in a target.<cfg>.dependencies table, directly or transitively, is in    *)
(* the PackageMap already; for the root, the members and the dependencies.  *)
PathDepNames(entry) ==
    LET t == TGet(entry, "dependencies")
    IN {DepName(k, TGet(t, k)) : k \in {x \in TKeys(t) : TGet(TGet(t, x), "path") # {}}}

AllPathDepNames(manifest) ==
    PathDepNames(manifest)
    \cup UNION {PathDepNames(TGet(TGet(manifest, "target"), c)) :
                   c \in TKeys(TGet(manifest, "target"))}

DepEdges ==
    UNION {{<<PackageName(f[2])[1], d>> : d \in AllPathDepNames(f[2])} :
              f \in {g \in fs : PackageName(g[2]) # None}}

Compose(R, S) == UNION {{<<r[1], q[2]>> : q \in {x \in S : x[1] = r[2]}} : r \in R}

Reach == LET R1 == DepEdges
             R2 == R1 \cup Compose(R1, R1)
         IN R2 \cup Compose(R2, R2)

Acyclic == \A e \in Reach : e[1] # e[2]

C16_PostOrder ==
    [][(/\ Acyclic
        /\ status = "running" /\ wpc = "walking" /\ stack # <<>>
        /\ Top.cont.insert /\ Top.cont.name # None
        /\ stack' = Front(stack))
          => /\ AllPathDepNames(Top.entry) \subseteq MapKeys(packages)
             /\ \A e \in Reach : e[1] = Top.cont.name[1] => e[2] \in MapKeys(packages)
             /\ Top.cont.name[1] \in MapKeys(packages')]_vars

C16_Witness ==
    /\ wpc = "done" /\ Acyclic
    /\ <<<<"r">>, <<"a">>>> \in DepEdges /\ <<<<"a">>, <<"b">>>> \in DepEdges
    /\ <<<<"r">>, <<"b">>>> \in Reach \ DepEdges
    /\ \E f \in fs : PackageName(f[2]) = Some(<<"a">>) /\ PathDepNames(f[2]) = {}
    /\ MapKeys(packages) = {<<"r">>, <<"a">>, <<"b">>}

(* C17: entries of the lock file that differ in name, version or source     *)
(* never share a vendor destination: the (dest, dest-filename) targets and  *)
(* the shell copies' destination directories of one entry are disjoint from *)
(* those of the other.                                                      *)
CopyDest(command) ==
    LET i == CHOOSE k \in 1..Len(command) : command[k] = "\" \""
    IN SubSeq(command, i + 1, Len(command) - 1)

Targets(d) ==
    IF d.type = "inline" THEN {<<d.dest, d.dest_filename>>}
    ELSE IF d.type = "shell" THEN {<<CopyDest(d.commands[1]), <<>>>>}
    ELSE {<<d.dest, <<>>>>}

EntryTargets(k) ==
    UNION {Targets(output[i]) :
              i \in (Offset(variant, lock, k) + 1)..Offset(variant, lock, k + 1)}

C17_DisjointDestinations ==
    status = "done" =>
        \A i, j \in 1..Len(lock) :
            (i < j /\ lock[i] # lock[j]) => EntryTargets(i) \cap EntryTargets(j) = {}

====
